---- MODULE Spec2Model ----
(***************************************************************************)
(* A model of moosig: the BIP-340/341 primitives of utils/taproot.py, the  *)
(* descriptor expansion of utils/txmaker.py and the two-round MuSig2       *)
(* signing session driven by main() of moosig.py.                          *)
(*                                                                         *)
(* The curve is scaled down: y^2 = x^3 + 7 over the field of p = 43        *)
(* elements, whose group has prime order n = 31 (secp256k1 has the same    *)
(* equation, p = 3 mod 4 and n < p).  A 32-byte string is scaled to two    *)
(* base-8 digits (6 bits), so point_mul runs over 6 bits instead of 256.   *)
(***************************************************************************)
EXTENDS Integers, Sequences, FiniteSets, TLC

\* ------------------------------------------------------------------------
\* utils/taproot.py: curve parameters
\* ------------------------------------------------------------------------

p == 43

n == 31

SECP256K1_ORDER == n

None == << >>

G == <<7, 36>>

\* ------------------------------------------------------------------------
\* utils/taproot.py: bytes <-> int
\* ------------------------------------------------------------------------

\* x.to_bytes(32, "big"), scaled to two base-8 digits, most significant first
bytes_from_int(v) == << (v \div 8) % 8, v % 8 >>

RECURSIVE int_from_bytes(_)
int_from_bytes(b) ==
    IF Len(b) = 0 THEN 0
    ELSE 8 * int_from_bytes(SubSeq(b, 1, Len(b) - 1)) + b[Len(b)]

\* hashlib.sha256 scaled to a 6-bit digest: an order-sensitive fold of the
\* input digits
sha256_round(h, d) == (h * 37 + d * 5 + 11) % 64

\* the fold of sha256_round over b from position i on, four bytes a step
RECURSIVE sha256_fold(_, _, _)
sha256_fold(h, b, i) ==
    IF i > Len(b) THEN h
    ELSE IF i + 3 <= Len(b)
    THEN sha256_fold(sha256_round(sha256_round(sha256_round(sha256_round(
                         h, b[i]), b[i + 1]), b[i + 2]), b[i + 3]), b, i + 4)
    ELSE sha256_fold(sha256_round(h, b[i]), b, i + 1)

sha256_digest(b) == bytes_from_int(sha256_fold(23, b, 1))

\* tag.encode(): every tag of the program as a distinct byte string
tag_encode(tag) ==
    CASE tag = "BIP0340/aux"       -> <<1>>
      [] tag = "BIP0340/nonce"     -> <<2>>
      [] tag = "BIP0340/challenge" -> <<3>>
      [] tag = "TapTweak"          -> <<4>>
      [] tag = "KeyAgg list"       -> <<5>>
      [] tag = "KeyAgg coefficient" -> <<6>>
      [] tag = "MuSig/noncecoef"   -> <<7>>

tagged_hash(tag, msg) ==
    LET tag_hash == sha256_digest(tag_encode(tag))
    IN  sha256_digest(tag_hash \o tag_hash \o msg)

\* ------------------------------------------------------------------------
\* utils/taproot.py: point arithmetic
\* ------------------------------------------------------------------------

is_infinite(P) == P = None

x(P) == P[1]

y(P) == P[2]

\* pow(b, e, m), by squaring; h is b^(e div 2)
pow_step(h, b, e, m) ==
    IF e % 2 = 0 THEN (h * h) % m ELSE (((h * h) % m) * (b % m)) % m

RECURSIVE pow(_, _, _)
pow(b, e, m) == IF e = 0 THEN 1 % m ELSE pow_step(pow(b, e \div 2, m), b, e, m)

\* the last line of point_add: the sum, from lam and x3
point_add_result(P1, lam, x3) == << x3, (lam * (x(P1) - x3) - y(P1)) % p >>

\* x3 = (lam * lam - x(P1) - x(P2)) % p
point_add_x3(P1, P2, lam) == point_add_result(P1, lam, (lam * lam - x(P1) - x(P2)) % p)

point_add(P1, P2) ==
    IF P1 = None THEN P2
    ELSE IF P2 = None THEN P1
    ELSE IF x(P1) = x(P2) /\ y(P1) # y(P2) THEN None
    ELSE point_add_x3(P1, P2,
             IF P1 = P2
             THEN (3 * x(P1) * x(P1) * pow(2 * y(P1), p - 2, p)) % p
             ELSE ((y(P2) - y(P1)) * pow(x(P2) - x(P1), p - 2, p)) % p)

\* the loop of point_mul from bit i on: R the accumulator, P the doubled point
RECURSIVE point_mul_loop(_, _, _, _)
point_mul_loop(R, P, k, i) ==
    IF i = 6 THEN R
    ELSE point_mul_loop(IF (k \div (2 ^ i)) % 2 = 1 THEN point_add(R, P) ELSE R,
                        point_add(P, P), k, i + 1)

\* the points of the curve, and the point at infinity
CurvePoints ==
    { P \in (0 .. p - 1) \X (0 .. p - 1) : (P[2] * P[2]) % p = (P[1] * P[1] * P[1] + 7) % p }
        \cup { None }

\* point_mul of every point and every 6-bit scalar, computed once
point_mul_table ==
    [P \in CurvePoints |-> [k \in 0 .. 63 |-> point_mul_loop(None, P, k, 0)]]

point_mul(P, k) == point_mul_table[P][k]

bytes_from_point(P) == bytes_from_int(x(P))

\* the last lines of lift_x: y is a square root of y_sq, or there is none
lift_x_root(xx, y_sq, yy) ==
    IF pow(yy, 2, p) # y_sq THEN None
    ELSE << xx, IF yy % 2 = 0 THEN yy ELSE p - yy >>

\* y = pow(y_sq, (p + 1) // 4, p)
lift_x_sq(xx, y_sq) == lift_x_root(xx, y_sq, pow(y_sq, (p + 1) \div 4, p))

lift_x(xx) ==
    IF xx >= p THEN None ELSE lift_x_sq(xx, (pow(xx, 3, p) + 7) % p)

has_even_y(P) == y(P) % 2 = 0

\* ------------------------------------------------------------------------
\* utils/taproot.py: BIP-340 signature verification
\* ------------------------------------------------------------------------

\* the last lines of schnorr_verify: R = s*G - e*P has even Y and x(R) = r
schnorr_verify_R(r, R) == ~ (R = None \/ ~ has_even_y(R) \/ x(R) # r)

\* the challenge e of schnorr_verify
schnorr_verify_e(msg, pubkey, sig) ==
    int_from_bytes(tagged_hash("BIP0340/challenge", SubSeq(sig, 1, 2) \o pubkey \o msg)) % n

\* schnorr_verify with the challenge not negated: s*G + e*P instead of s*G - e*P
schnorr_verify_plus_e(msg, pubkey, sig, P, r, s) ==
    IF P = None \/ r >= p \/ s >= n THEN FALSE
    ELSE schnorr_verify_R(r, point_add(point_mul(G, s),
                                       point_mul(P, schnorr_verify_e(msg, pubkey, sig))))

\* schnorr_verify from P, r and s on
schnorr_verify_P(msg, pubkey, sig, P, r, s) ==
    IF P = None \/ r >= p \/ s >= n THEN FALSE
    ELSE schnorr_verify_R(r, point_add(point_mul(G, s),
                                       point_mul(P, n - schnorr_verify_e(msg, pubkey, sig))))

\* schnorr_verify(msg, pubkey, sig): sig = r || s, two 2-digit byte strings
schnorr_verify(msg, pubkey, sig) ==
    schnorr_verify_P(msg, pubkey, sig, lift_x(int_from_bytes(pubkey)),
                     int_from_bytes(SubSeq(sig, 1, 2)), int_from_bytes(SubSeq(sig, 3, 4)))

\* ------------------------------------------------------------------------
\* Python builtins used by utils/txmaker.py: bytes comparison and sorted()
\* ------------------------------------------------------------------------

RECURSIVE bytes_lt(_, _)
bytes_lt(a, b) ==
    IF Len(b) = 0 THEN FALSE
    ELSE IF Len(a) = 0 THEN TRUE
    ELSE IF a[1] # b[1] THEN a[1] < b[1]
    ELSE bytes_lt(Tail(a), Tail(b))

\* insert e into the sorted list s, after the elements equal to it
RECURSIVE sorted_insert(_, _)
sorted_insert(s, e) ==
    IF Len(s) = 0 THEN <<e>>
    ELSE IF bytes_lt(e, s[1]) THEN <<e>> \o s
    ELSE <<s[1]>> \o sorted_insert(Tail(s), e)

RECURSIVE sorted(_)
sorted(s) ==
    IF Len(s) = 0 THEN << >>
    ELSE sorted_insert(sorted(SubSeq(s, 1, Len(s) - 1)), s[Len(s)])

\* b''.join(list)
RECURSIVE join(_)
join(s) == IF Len(s) = 0 THEN << >> ELSE s[1] \o join(Tail(s))

\* ------------------------------------------------------------------------
\* utils/bip0327.py (MusigEngine): key aggregation
\* ------------------------------------------------------------------------

point_negate(P) == IF P = None THEN None ELSE << x(P), (p - y(P)) % p >>

\* 33-byte compressed encoding, scaled: parity byte, then x
cbytes(P) == << IF has_even_y(P) THEN 2 ELSE 3 >> \o bytes_from_point(P)

cpoint(b) ==
    LET P == lift_x(int_from_bytes(Tail(b)))
    IN  IF b[1] = 2 THEN P ELSE point_negate(P)

individual_pk(seckey) == cbytes(point_mul(G, seckey))

\* a_i = H_agg(L, P_i), L the hash of the concatenation of all pubkeys
key_agg_coeff(pubkeys, pk) ==
    LET L == tagged_hash("KeyAgg list", join(pubkeys))
    IN  int_from_bytes(tagged_hash("KeyAgg coefficient", L \o pk)) % n

\* Q = sum of a_i * P_i over pubkeys[1..k]
RECURSIVE key_agg_sum(_, _)
key_agg_sum(pubkeys, k) ==
    IF k = 0 THEN None
    ELSE point_add(key_agg_sum(pubkeys, k - 1),
                   point_mul(cpoint(pubkeys[k]), key_agg_coeff(pubkeys, pubkeys[k])))

\* the key aggregation context: the aggregate point Q
key_agg(pubkeys) == [Q |-> key_agg_sum(pubkeys, Len(pubkeys))]

\* ------------------------------------------------------------------------
\* utils/bip0327.py (MusigEngine): nonces, partial signatures, aggregation
\* ------------------------------------------------------------------------

\* round 1: the public nonce (R1, R2) of the secret nonce (k1, k2)
nonce_pub(secnonce) ==
    << cbytes(point_mul(G, secnonce[1])), cbytes(point_mul(G, secnonce[2])) >>

\* the compressed encoding of a point that may be the point at infinity
cbytes_ext(P) == IF P = None THEN <<0, 0, 0>> ELSE cbytes(P)

\* the sum of the c-th points of pubnonces[1..k]
RECURSIVE nonce_sum(_, _, _)
nonce_sum(pubnonces, c, k) ==
    IF k = 0 THEN None
    ELSE point_add(nonce_sum(pubnonces, c, k - 1), cpoint(pubnonces[k][c]))

\* nonce aggregation: (aggR1, aggR2)
nonce_agg(pubnonces) ==
    << nonce_sum(pubnonces, 1, Len(pubnonces)), nonce_sum(pubnonces, 2, Len(pubnonces)) >>

\* the binding factor b = H_nonce(aggR1 || aggR2 || Q || message)
nonce_coef(agg, Q, msg) ==
    int_from_bytes(tagged_hash("MuSig/noncecoef",
        cbytes_ext(agg[1]) \o cbytes_ext(agg[2]) \o bytes_from_point(Q) \o msg)) % n

\* the effective nonce point aggR1 + b * aggR2
final_nonce_of(agg, b) == point_add(agg[1], point_mul(agg[2], b))

final_nonce_agg(agg, Q, msg) == final_nonce_of(agg, nonce_coef(agg, Q, msg))

\* the effective nonce point of a session, which may be the point at infinity
final_nonce(pubnonces, Q, msg) == final_nonce_agg(nonce_agg(pubnonces), Q, msg)

\* the challenge e = tagged_hash("BIP0340/challenge", x(R) || x(Q) || message) mod n
challenge(R, Q, msg) ==
    int_from_bytes(tagged_hash("BIP0340/challenge",
        bytes_from_point(R) \o bytes_from_point(Q) \o msg)) % n

session_values_R(b, R, Q, msg) == [b |-> b, R |-> R, e |-> challenge(R, Q, msg)]

\* G stands in for an effective nonce at infinity
session_values_R0(b, R0, Q, msg) == session_values_R(b, IF R0 = None THEN G ELSE R0, Q, msg)

session_values_b(agg, b, Q, msg) == session_values_R0(b, final_nonce_of(agg, b), Q, msg)

session_values_agg(agg, Q, msg) == session_values_b(agg, nonce_coef(agg, Q, msg), Q, msg)

\* the values of a session: binding factor b, effective nonce R, challenge e
get_session_values(pubnonces, Q, msg) == session_values_agg(nonce_agg(pubnonces), Q, msg)

\* s_i = k1 + b*k2 + e*a_i*d_i, the nonce sign-corrected by the parity of R
\* and the secret key by the parity of Q
sign_sv(secnonce, sk, Q, sv, a) ==
    ( (IF has_even_y(sv.R) THEN secnonce[1] ELSE n - secnonce[1])
      + sv.b * (IF has_even_y(sv.R) THEN secnonce[2] ELSE n - secnonce[2])
      + sv.e * a * (IF has_even_y(Q) THEN sk ELSE n - sk) ) % n

sign_Q(secnonce, sk, pubnonces, pubkeys, msg, Q) ==
    sign_sv(secnonce, sk, Q, get_session_values(pubnonces, Q, msg),
            key_agg_coeff(pubkeys, individual_pk(sk)))

\* round 2: the partial signature of the signer of secret key sk
sign(secnonce, sk, pubnonces, pubkeys, msg) ==
    sign_Q(secnonce, sk, pubnonces, pubkeys, msg, key_agg(pubkeys).Q)

\* s_i * G = Re_i + e * a_i * g * P_i, Re_i the signer's own effective nonce
partial_sig_verify_sv(psig, pubnonce, pk, Q, sv, a) ==
    /\ psig < n
    /\ point_mul(G, psig) =
           point_add(IF has_even_y(sv.R)
                     THEN point_add(cpoint(pubnonce[1]), point_mul(cpoint(pubnonce[2]), sv.b))
                     ELSE point_negate(point_add(cpoint(pubnonce[1]),
                                                 point_mul(cpoint(pubnonce[2]), sv.b))),
                     point_mul(cpoint(pk),
                               (sv.e * a * (IF has_even_y(Q) THEN 1 ELSE n - 1)) % n))

partial_sig_verify_Q(psig, pubnonce, pk, pubnonces, pubkeys, msg, Q) ==
    partial_sig_verify_sv(psig, pubnonce, pk, Q, get_session_values(pubnonces, Q, msg),
                          key_agg_coeff(pubkeys, pk))

\* partial verification of signer pk's partial signature psig, against its
\* own public nonce pubnonce
partial_sig_verify(psig, pubnonce, pk, pubnonces, pubkeys, msg) ==
    partial_sig_verify_Q(psig, pubnonce, pk, pubnonces, pubkeys, msg, key_agg(pubkeys).Q)

RECURSIVE psig_sum(_, _)
psig_sum(psigs, k) ==
    IF k = 0 THEN 0 ELSE (psig_sum(psigs, k - 1) + int_from_bytes(psigs[k])) % n

\* aggregation: the final signature (x(R), s)
partial_sig_agg(psigs, pubnonces, pubkeys, msg) ==
    bytes_from_point(get_session_values(pubnonces, key_agg(pubkeys).Q, msg).R)
        \o bytes_from_int(psig_sum(psigs, Len(psigs)))

\* ------------------------------------------------------------------------
\* Python str builtins used by utils/txmaker.py.  A string is the sequence
\* of its characters.
\* ------------------------------------------------------------------------

DigitChars == << "0", "1", "2", "3", "4", "5", "6", "7", "8", "9" >>

IsDigit(ch) == \E d \in 1 .. 10 : DigitChars[d] = ch

\* the value of a digit character
DigitValue(ch) == (CHOOSE d \in 1 .. 10 : DigitChars[d] = ch) - 1

\* str(i), the decimal digits of i >= 0
RECURSIVE str_int(_)
str_int(i) ==
    IF i < 10 THEN << DigitChars[i + 1] >>
    ELSE str_int(i \div 10) \o << DigitChars[(i % 10) + 1] >>

\* s[i:].startswith(sub), i counted from 0
starts_at(s, sub, i) ==
    /\ i + Len(sub) <= Len(s)
    /\ \A k \in 1 .. Len(sub) : s[i + k] = sub[k]

\* the indices from start on where sub occurs in s
occurrences(s, sub, start) == { i \in start .. Len(s) - Len(sub) : starts_at(s, sub, i) }

\* the least of a set of indices, or -1 when there is none
least_or_minus_one(hits) ==
    IF hits = {} THEN -1 ELSE CHOOSE i \in hits : \A j \in hits : i <= j

\* s.find(sub, start): the lowest index from start on where sub occurs, or -1
find(s, sub, start) == least_or_minus_one(occurrences(s, sub, start))

\* sub in s
contains(s, sub) == find(s, sub, 0) # -1

\* s[a:b], a and b counted from 0
slice(s, a, b) == SubSeq(s, a + 1, b)

\* s.replace(old, new): every occurrence, from the left, not overlapping
RECURSIVE replace(_, _, _)
replace_at(s, old, new, at) ==
    IF at = -1 THEN s
    ELSE slice(s, 0, at) \o new \o replace(slice(s, at + Len(old), Len(s)), old, new)

replace(s, old, new) == replace_at(s, old, new, find(s, old, 0))

\* s.split(sep), sep one character
RECURSIVE split(_, _)
split_at(s, sep, at) ==
    IF at = -1 THEN << s >>
    ELSE << slice(s, 0, at) >> \o split(slice(s, at + 1, Len(s)), sep)

split(s, sep) == split_at(s, sep, find(s, sep, 0))

\* ------------------------------------------------------------------------
\* base58 and the serialization of extended keys, scaled: the base58check
\* string of an extended key is "X", the chain code (one digit) and the
\* compressed pubkey (three digits)
\* ------------------------------------------------------------------------

\* the chain code of an ordinary extended key of the model
PLAIN_CHAINCODE == 0

\* BIP_MUSIG_CHAINCODE, the chain code of a synthetic aggregate key
BIP_MUSIG_CHAINCODE == 7

\* what a raising call returns in place of a string
Raised == << "ValueError" >>

\* base58.b58encode_check of chain code cc and compressed key cpk
b58encode_check(cc, cpk) ==
    << "X", DigitChars[cc + 1], DigitChars[cpk[1] + 1], DigitChars[cpk[2] + 1],
       DigitChars[cpk[3] + 1] >>

\* the strings base58.b58decode_check decodes
b58_valid(str) ==
    /\ Len(str) = 5
    /\ str[1] = "X"
    /\ \A k \in 2 .. 5 : IsDigit(str[k])

\* base58.b58decode_check(xpub)[-33:]
b58decode_pubkey(str) == << DigitValue(str[3]), DigitValue(str[4]), DigitValue(str[5]) >>

\* ------------------------------------------------------------------------
\* utils/txmaker.py: musig_aggr_xpub, replace_musigs_with_aggr_xpubs
\* ------------------------------------------------------------------------

\* musig_aggr_xpub with the pubkeys aggregated in the order given
musig_aggr_xpub_unsorted(pubkeys) ==
    IF key_agg(pubkeys).Q = None THEN Raised
    ELSE b58encode_check(BIP_MUSIG_CHAINCODE, cbytes(key_agg(pubkeys).Q))

\* musig_aggr_xpub(pubkeys); key_agg raises when the aggregate is infinity
musig_aggr_xpub(pubkeys) ==
    IF key_agg(sorted(pubkeys)).Q = None THEN Raised
    ELSE b58encode_check(BIP_MUSIG_CHAINCODE, cbytes(key_agg(sorted(pubkeys)).Q))

\* the xpub of a key_orig: what follows the "]" of its origin, if it has one
xpub_of_key_orig(key_orig) ==
    IF find(key_orig, << "]" >>, 0) = -1 THEN key_orig
    ELSE slice(key_orig, find(key_orig, << "]" >>, 0) + 1, Len(key_orig))

\* lines 89-93: the pubkeys of key_and_origs, or Raised when one does not decode
musig_pubkeys(key_and_origs) ==
    IF \E k \in 1 .. Len(key_and_origs) : ~ b58_valid(xpub_of_key_orig(key_and_origs[k]))
    THEN Raised
    ELSE [k \in 1 .. Len(key_and_origs) |->
             b58decode_pubkey(xpub_of_key_orig(key_and_origs[k]))]

MusigOpen == << "m", "u", "s", "i", "g", "(" >>

\* one iteration of the loop, from musig_start and musig_end on
RECURSIVE replace_musigs_with_aggr_xpubs(_)
replace_musigs_at(desc, musig_start, musig_end, pks) ==
    IF pks = Raised THEN Raised
    ELSE IF musig_aggr_xpub(pks) = Raised THEN Raised
    ELSE replace_musigs_with_aggr_xpubs(
             slice(desc, 0, musig_start) \o musig_aggr_xpub(pks)
                 \o slice(desc, musig_end + 1, Len(desc)))

replace_musigs_from(desc, musig_start, musig_end) ==
    IF musig_end = -1 THEN Raised
    ELSE replace_musigs_at(desc, musig_start, musig_end,
             musig_pubkeys(split(slice(desc, musig_start + 6, musig_end), << "," >>)))

replace_musigs_start(desc, musig_start) ==
    IF musig_start = -1 THEN desc
    ELSE replace_musigs_from(desc, musig_start, find(desc, << ")" >>, musig_start))

replace_musigs_with_aggr_xpubs(desc) == replace_musigs_start(desc, find(desc, MusigOpen, 0))

\* ------------------------------------------------------------------------
\* Bounds of the model
\* ------------------------------------------------------------------------

\* secret keys of the cosigners are drawn from this pool (in [1, n-1];
\* 3, 5, 12 have even-Y public keys, 20 an odd-Y one)
KeyPool == {3, 5, 12, 20}

\* the secret nonce pairs a round-1 call may draw
NoncePool == { <<2, 9>>, <<14, 6>> }

\* the messages (sighashes) of the signable items
MsgPool == { <<1, 2>>, <<7, 0>> }

\* the largest number of cosigners of a session of SpecMusig
MaxSigners == 3

\* the number of cosigner calls of a run of SpecApi
MaxCalls == 4

\* moosig.py: the cosigners list of main holds signer_1 and signer_2
NumCosigners == 2

\* moosig.py: n_ins, the inputs of the transaction main signs
n_ins == 2

\* ------------------------------------------------------------------------
\* State
\* ------------------------------------------------------------------------

VARIABLES
    pc,           \* where the driver is: round1, round2, agg, done, aborted; api
    idx,          \* the index of the next cosigner of the running for loop
    keys,         \* keys[i]: the secret key of cosigner i, in policy order
    msgs,         \* msgs[j]: the message of signable item j
    secnonce,     \* secnonce[i][j]: cosigner i's secret nonce for item j
    pub_nonces,   \* pub_nonces[j][i]: the PSBT's public nonce of cosigner i
    partial_sigs, \* partial_sigs[j][i]: the PSBT's partial signature
    tap_key_sig,  \* tap_key_sig[j]: the PSBT's final signature
    result,       \* result[j]: the outcome of the aggregation of item j
    complete,     \* the session declared full completion
    err,          \* the error of the last cosigner call
    last,         \* the last cosigner call: <<round, cosigner>>
    r1done,       \* history: the cosigners whose round-1 call completed
    r2begun,      \* history: the cosigners whose round-2 call began
    r2done,       \* history: the cosigners whose round-2 call completed
    aggbegun,     \* history: the aggregation step began
    tampered,     \* history: the <<item, cosigner>> partial signatures altered
    calls,        \* the number of cosigner calls made so far (SpecApi)
    call,         \* the descriptor function under call and its arguments
    ret           \* what that call returned or raised

svars == << pc, idx, keys, msgs, secnonce, pub_nonces, partial_sigs, tap_key_sig,
            result, complete, err, last, r1done, r2begun, r2done, aggbegun,
            tampered, calls >>

\* the variables of the descriptor expansion
dvars == << call, ret >>

vars == << svars, dvars >>

\* no descriptor function is under call
NoCall == [fn |-> "none"]

NoRet == [status |-> "none"]

N == Len(keys)

Cosigners == 1 .. N

Items == 1 .. Len(msgs)

\* the participants' compressed pubkeys in policy order, and sorted
pubkeys == [i \in Cosigners |-> individual_pk(keys[i])]

sorted_pubkeys == sorted(pubkeys)

\* the sequences of k distinct keys of the pool
KeySeqs(k) == { s \in [1 .. k -> KeyPool] : \A a, b \in 1 .. k : a # b => s[a] # s[b] }

\* a missing PSBT field
Missing == << >>

AllNoncesPresent(j) == \A i \in Cosigners : pub_nonces[j][i] # Missing

AllSigsPresent(j) == \A i \in Cosigners : partial_sigs[j][i] # Missing

\* the state a session starts in: a policy over ks whose key aggregation
\* succeeded, a PSBT with ms as the items' messages and no signing field set
InitSession(ks, ms, start) ==
    /\ keys = ks
    /\ msgs = ms
    /\ key_agg(sorted([i \in 1 .. Len(ks) |-> individual_pk(ks[i])])).Q # None
    /\ pc = start
    /\ idx = 1
    /\ secnonce = [i \in 1 .. Len(ks) |-> [j \in 1 .. Len(ms) |-> Missing]]
    /\ pub_nonces = [j \in 1 .. Len(ms) |-> [i \in 1 .. Len(ks) |-> Missing]]
    /\ partial_sigs = [j \in 1 .. Len(ms) |-> [i \in 1 .. Len(ks) |-> Missing]]
    /\ tap_key_sig = [j \in 1 .. Len(ms) |-> Missing]
    /\ result = [j \in 1 .. Len(ms) |-> "none"]
    /\ complete = FALSE
    /\ err = "none"
    /\ last = << "none", 0 >>
    /\ call = NoCall
    /\ ret = NoRet
    /\ r1done = {}
    /\ r2begun = {}
    /\ r2done = {}
    /\ aggbegun = FALSE
    /\ tampered = {}
    /\ calls = 0

\* ------------------------------------------------------------------------
\* utils/musig2.py: the cosigner operations and the aggregation
\* ------------------------------------------------------------------------

\* generate_public_nonces writing a fresh nonce map: the entries of the other
\* cosigners are dropped
GeneratePublicNoncesAlone(i, nn) ==
    /\ secnonce' = [secnonce EXCEPT ![i] = nn]
    /\ pub_nonces' = [j \in Items |->
                         [k \in Cosigners |-> IF k = i THEN nonce_pub(nn[j]) ELSE Missing]]
    /\ err' = "none"
    /\ last' = << "round1", i >>
    /\ r1done' = r1done \cup {i}
    /\ UNCHANGED << keys, msgs, partial_sigs, tap_key_sig, result, complete,
                    r2begun, r2done, aggbegun, tampered, dvars >>

\* generate_public_nonces(psbt) of cosigner i, drawing nn[j] for item j
GeneratePublicNonces(i, nn) ==
    /\ secnonce' = [secnonce EXCEPT ![i] = nn]
    /\ pub_nonces' = [j \in Items |-> [pub_nonces[j] EXCEPT ![i] = nonce_pub(nn[j])]]
    /\ err' = "none"
    /\ last' = << "round1", i >>
    /\ r1done' = r1done \cup {i}
    /\ UNCHANGED << keys, msgs, partial_sigs, tap_key_sig, result, complete,
                    r2begun, r2done, aggbegun, tampered, dvars >>

\* the items generate_partial_signatures signs before it stops: all of them,
\* or those before the first item with a public nonce missing
SignedItems == { j \in Items : \A k \in 1 .. j : AllNoncesPresent(k) }

\* generate_partial_signatures without the check of the public nonces
Round2ErrorUnchecked == "none"

\* the error generate_partial_signatures ends with
Round2Error == IF SignedItems = Items THEN "none" ELSE "ProtocolOrderingError"

\* generate_partial_signatures(psbt) of cosigner i
GeneratePartialSignatures(i) ==
    /\ partial_sigs' =
           [j \in Items |->
               IF j \in SignedItems
               THEN [partial_sigs[j] EXCEPT
                        ![i] = bytes_from_int(sign(secnonce[i][j], keys[i], pub_nonces[j],
                                                   sorted_pubkeys, msgs[j]))]
               ELSE partial_sigs[j]]
    /\ err' = Round2Error
    /\ last' = << "round2", i >>
    /\ r2begun' = r2begun \cup {i}
    /\ r2done' = IF SignedItems = Items THEN r2done \cup {i} ELSE r2done
    /\ UNCHANGED << keys, msgs, secnonce, pub_nonces, tap_key_sig, result, complete,
                    r1done, aggbegun, tampered, dvars >>

\* the cosigners whose partial signature of item j fails partial verification
FailingSigners(j) ==
    { i \in Cosigners :
        ~ partial_sig_verify(int_from_bytes(partial_sigs[j][i]), pub_nonces[j][i], pubkeys[i],
                             pub_nonces[j], sorted_pubkeys, msgs[j]) }

\* the final signature of item j
AggregateOf(j) == partial_sig_agg(partial_sigs[j], pub_nonces[j], sorted_pubkeys, msgs[j])

\* the aggregation without partial verification and without the final check
AggregateItemUnverified(j) ==
    IF ~ (AllNoncesPresent(j) /\ AllSigsPresent(j)) THEN "ProtocolOrderingError" ELSE "ok"

\* the outcome of the aggregation of item j
AggregateItem(j) ==
    IF ~ (AllNoncesPresent(j) /\ AllSigsPresent(j)) THEN "ProtocolOrderingError"
    ELSE IF FailingSigners(j) # {} THEN "CryptoVerificationFailure"
    ELSE IF ~ schnorr_verify(msgs[j], bytes_from_point(key_agg(sorted_pubkeys).Q),
                             AggregateOf(j))
         THEN "CryptoVerificationFailure"
    ELSE "ok"

\* add_aggregate_signatures_and_check(psbt, wallet_policy)
AddAggregateSignaturesAndCheck ==
    /\ result' = [j \in Items |-> AggregateItem(j)]
    /\ tap_key_sig' = [j \in Items |->
                          IF result'[j] = "ok" THEN AggregateOf(j) ELSE tap_key_sig[j]]
    /\ complete' = \A j \in Items : result'[j] = "ok"
    /\ aggbegun' = TRUE
    /\ last' = << "agg", 0 >>
    /\ UNCHANGED << keys, msgs, secnonce, pub_nonces, partial_sigs, err,
                    r1done, r2begun, r2done, tampered, dvars >>

\* ------------------------------------------------------------------------
\* The environment: a partial signature altered on its way to the aggregator
\* ------------------------------------------------------------------------

\* the byte string s with its bit b flipped
flip_bit(s, b) ==
    LET v == int_from_bytes(s)
    IN  bytes_from_int(IF (v \div (2 ^ b)) % 2 = 1 THEN v - 2 ^ b ELSE v + 2 ^ b)

\* one bit of one partial signature is flipped before the aggregation
Tamper ==
    /\ pc = "agg"
    /\ tampered = {}
    /\ \E j \in Items, i \in Cosigners, b \in 0 .. 5 :
          /\ partial_sigs[j][i] # Missing
          /\ partial_sigs' = [partial_sigs EXCEPT ![j][i] = flip_bit(partial_sigs[j][i], b)]
          /\ tampered' = {<< j, i >>}
    /\ UNCHANGED << pc, idx, keys, msgs, secnonce, pub_nonces, tap_key_sig, result,
                    complete, err, last, r1done, r2begun, r2done, aggbegun, calls, dvars >>

\* ------------------------------------------------------------------------
\* moosig.py: main, the session of the cosigners list
\* ------------------------------------------------------------------------

\* the for loop leaving out the last cosigner
MainLoopNextShort(i, count, this, next) ==
    IF i < count - 1 THEN << this, i + 1 >> ELSE << next, 1 >>

\* "for signer in cosigners:" after the call of cosigner i: the next position
MainLoopNext(i, count, this, next) ==
    IF i < count THEN << this, i + 1 >> ELSE << next, 1 >>

\* lines 92-93: signer.generate_public_nonces(psbt)
MainRound1 ==
    /\ pc = "round1"
    /\ \E nn \in [Items -> NoncePool] : GeneratePublicNonces(idx, nn)
    /\ pc' = MainLoopNext(idx, N, "round1", "round2")[1]
    /\ idx' = MainLoopNext(idx, N, "round1", "round2")[2]
    /\ UNCHANGED calls

\* lines 98-99: signer.generate_partial_signatures(psbt); an exception ends main
MainRound2 ==
    /\ pc = "round2"
    /\ GeneratePartialSignatures(idx)
    /\ pc' = IF err' # "none" THEN "aborted"
             ELSE MainLoopNext(idx, N, "round2", "agg")[1]
    /\ idx' = IF err' # "none" THEN idx
              ELSE MainLoopNext(idx, N, "round2", "agg")[2]
    /\ UNCHANGED calls

\* line 103: add_aggregate_signatures_and_check(psbt, wallet_policy)
MainAggregate ==
    /\ pc = "agg"
    /\ AddAggregateSignaturesAndCheck
    /\ pc' = "done"
    /\ UNCHANGED << idx, calls >>

\* the sequences of k distinct messages of the pool
MsgSeqs(k) == { s \in [1 .. k -> MsgPool] : \A a, b \in 1 .. k : a # b => s[a] # s[b] }

Init ==
    \E ks \in KeySeqs(NumCosigners), ms \in MsgSeqs(n_ins) :
        InitSession(ks, ms, "round1")

Next == MainRound1 \/ MainRound2 \/ Tamper \/ MainAggregate

Spec == Init /\ [][Next]_vars

\* ------------------------------------------------------------------------
\* The MuSig property: a session of any number of cosigners, in any order,
\* over one signable item
\* ------------------------------------------------------------------------

InitMusig ==
    \E k \in 2 .. MaxSigners : \E ks \in KeySeqs(k), ms \in [1 .. 1 -> MsgPool] :
        InitSession(ks, ms, "round1")

NextMusig == MainRound1 \/ MainRound2 \/ MainAggregate

SpecMusig == InitMusig /\ [][NextMusig]_vars

\* ------------------------------------------------------------------------
\* The cosigner interface called in any order: MaxCalls calls of the
\* cosigners of the policy, then possibly the aggregation
\* ------------------------------------------------------------------------

ApiRound1 ==
    /\ pc = "api"
    /\ calls < MaxCalls
    /\ \E i \in Cosigners, nn \in [Items -> NoncePool] : GeneratePublicNonces(i, nn)
    /\ calls' = calls + 1
    /\ UNCHANGED << pc, idx >>

ApiRound2 ==
    /\ pc = "api"
    /\ calls < MaxCalls
    /\ \E i \in Cosigners : GeneratePartialSignatures(i)
    /\ calls' = calls + 1
    /\ UNCHANGED << pc, idx >>

ApiAggregate ==
    /\ pc = "api"
    /\ AddAggregateSignaturesAndCheck
    /\ pc' = "done"
    /\ UNCHANGED << idx, calls >>

InitApi ==
    \E ks \in KeySeqs(NumCosigners), ms \in [1 .. 1 -> MsgPool] :
        InitSession(ks, ms, "api")

NextApi == ApiRound1 \/ ApiRound2 \/ ApiAggregate

SpecApi == InitApi /\ [][NextApi]_vars

\* ------------------------------------------------------------------------
\* The rounds with a join barrier and the cosigners of a round called in any
\* order, each once, one call at a time
\* ------------------------------------------------------------------------

\* a cosigner that has not made its round-1 call makes it
AnyRound1 ==
    /\ pc = "round1"
    /\ \E i \in Cosigners \ r1done : \E nn \in [Items -> NoncePool] :
          /\ GeneratePublicNonces(i, nn)
          /\ pc' = IF r1done \cup {i} = Cosigners THEN "round2" ELSE "round1"
    /\ UNCHANGED << idx, calls >>

\* a cosigner that has not made its round-2 call makes it
AnyRound2 ==
    /\ pc = "round2"
    /\ \E i \in Cosigners \ r2begun :
          /\ GeneratePartialSignatures(i)
          /\ pc' = IF err' # "none" THEN "aborted"
                   ELSE IF r2begun \cup {i} = Cosigners THEN "agg" ELSE "round2"
    /\ UNCHANGED << idx, calls >>

\* the policies of k keys of the pool, one for every set of keys
KeySets(k) == { s \in KeySeqs(k) : \A a, b \in 1 .. k : (a < b) => (s[a] < s[b]) }

InitRounds ==
    \E k \in 2 .. MaxSigners : \E ks \in KeySets(k), ms \in [1 .. 1 -> MsgPool] :
        InitSession(ks, ms, "round1")

NextRounds == AnyRound1 \/ AnyRound2 \/ MainAggregate

SpecRounds == InitRounds /\ [][NextRounds]_vars

\* ------------------------------------------------------------------------
\* utils/txmaker.py: getScriptPubkeyFromWallet.  A wallet policy is a record
\* of descriptor_template, keys_info and version ("V1" or "V2").
\* ------------------------------------------------------------------------

\* f"@{i}"
Token(i) == << "@" >> \o str_int(i)

Wildcard == << "/", "*", "*" >>

\* key_info_str[-3:] == "/**"
ends_with_wildcard(key_info_str) ==
    /\ Len(key_info_str) >= 3
    /\ slice(key_info_str, Len(key_info_str) - 3, Len(key_info_str)) = Wildcard

\* the indices of enumerate(keys_info), in ascending order
enumerate_forward(keys_info) == [k \in 1 .. Len(keys_info) |-> k - 1]

\* the indices of reversed(list(enumerate(keys_info)))
enumerate_reversed(keys_info) == [k \in 1 .. Len(keys_info) |-> Len(keys_info) - k]

\* the for loop over the indices of order: the string it leaves, or Raised
RECURSIVE substitute_keys(_, _, _)
substitute_key(wallet, descriptor_str, order, key_info_str) ==
    IF wallet.version = "V1" /\ ~ ends_with_wildcard(key_info_str) THEN Raised
    ELSE IF ~ contains(descriptor_str, Token(order[1])) THEN Raised
    ELSE substitute_keys(wallet, replace(descriptor_str, Token(order[1]), key_info_str),
                         Tail(order))

substitute_keys(wallet, descriptor_str, order) ==
    IF order = << >> THEN descriptor_str
    ELSE substitute_key(wallet, descriptor_str, order, wallet.keys_info[order[1] + 1])

\* descriptor_str after the loop
expand_keys(wallet) ==
    substitute_keys(wallet, wallet.descriptor_template, enumerate_reversed(wallet.keys_info))

\* descriptor_str.replace("/**", f"/{1 if change else 0}/*")
expand_wildcard(descriptor_str, change) ==
    replace(descriptor_str, Wildcard, << "/", IF change THEN "1" ELSE "0", "/", "*" >>)

\* lines 118-120 on the string the loop left
expand_rest(descriptor_str, change) ==
    IF descriptor_str = Raised THEN Raised
    ELSE replace_musigs_with_aggr_xpubs(expand_wildcard(descriptor_str, change))

\* Descriptor.from_string of the external engine takes a string in which no
\* placeholder is left, every key is a well-formed extended key and every
\* derivation path ends its key expression
key_at(desc, i) ==
    /\ i + 5 <= Len(desc)
    /\ \A k \in 1 .. 4 : IsDigit(desc[i + 1 + k])
    /\ (i + 5 < Len(desc)) => ~ IsDigit(desc[i + 6])

path_end_at(desc, i) == i + 1 < Len(desc) /\ desc[i + 2] \in { ")", "," }

Descriptor_from_string_ok(desc) ==
    /\ ~ contains(desc, << "@" >>)
    /\ \A i \in 0 .. Len(desc) - 1 : (desc[i + 1] = "X") => key_at(desc, i)
    /\ \A i \in 0 .. Len(desc) - 1 : (desc[i + 1] = "*") => path_end_at(desc, i)

\* what the call returns or raises, given the string after the loop and the
\* string handed to the engine
script_pubkey(substituted, descriptor_str) ==
    IF descriptor_str = Raised
    THEN [status |-> "ValueError", substituted |-> substituted, descriptor |-> Raised]
    ELSE IF ~ Descriptor_from_string_ok(descriptor_str)
    THEN [status |-> "DescriptorError", substituted |-> substituted,
          descriptor |-> descriptor_str]
    ELSE [status |-> "script", substituted |-> substituted, descriptor |-> descriptor_str]

getScriptPubkeyFromWallet(wallet, change) ==
    script_pubkey(expand_keys(wallet), expand_rest(expand_keys(wallet), change))

\* ------------------------------------------------------------------------
\* utils/txmaker.py: get_placeholder_root_key, fill_inout.  A placeholder is
\* a record of kind ("plain" or "musig"), key_indexes (one index when plain),
\* num1 and num2; a template is a record of key, a placeholder, and tree,
\* None or the sequence of its leaves; a leaf is a record of its script
\* descriptor and its placeholder.
\* ------------------------------------------------------------------------

\* ExtendedKey.deserialize(xpub)
ExtendedKey_deserialize(xpub) ==
    [chaincode |-> DigitValue(xpub[2]), pubkey |-> b58decode_pubkey(xpub)]

\* KeyOriginInfo.from_string(key_info[1:key_origin_end_pos])
KeyOriginInfo_from_string(key_info, key_origin_end_pos) ==
    << slice(key_info, 1, key_origin_end_pos), << >> >>

\* hash160(pubkey)[:4]
hash160_4(pubkey) == << "hash160" >> \o pubkey

\* deserialize_pubkeys(keys_info): the pubkeys in the order of keys_info
deserialize_pubkeys(keys_info_in_musig) ==
    [k \in 1 .. Len(keys_info_in_musig) |->
        b58decode_pubkey(xpub_of_key_orig(keys_info_in_musig[k]))]

\* aggregate_musig_pubkey(keys_info): the synthetic extended key
aggregate_musig_pubkey(keys_info_in_musig) ==
    [chaincode |-> BIP_MUSIG_CHAINCODE,
     pubkey |-> cbytes(key_agg(sorted(deserialize_pubkeys(keys_info_in_musig))).Q)]

\* [keys_info[i] for i in placeholder.key_indexes]
keys_info_of(placeholder, keys_info) ==
    [k \in 1 .. Len(placeholder.key_indexes) |-> keys_info[placeholder.key_indexes[k] + 1]]

\* keys_info[i] raises IndexError for one of the indexes of the placeholder
index_error(placeholder, keys_info) ==
    \E k \in 1 .. Len(placeholder.key_indexes) :
        placeholder.key_indexes[k] >= Len(keys_info)

\* what get_placeholder_root_key returns or raises
plain_root_key(key_info, key_origin_end_pos) ==
    IF key_origin_end_pos = -1
    THEN [raised |-> "none", root_pubkey |-> ExtendedKey_deserialize(key_info),
          root_key_origin |-> None]
    ELSE [raised |-> "none",
          root_pubkey |-> ExtendedKey_deserialize(
                              slice(key_info, key_origin_end_pos + 1, Len(key_info))),
          root_key_origin |-> KeyOriginInfo_from_string(key_info, key_origin_end_pos)]

musig_root_key(keys_info_in_musig) ==
    IF key_agg(sorted(deserialize_pubkeys(keys_info_in_musig))).Q = None
    THEN [raised |-> "ValueError"]
    ELSE [raised |-> "none", root_pubkey |-> aggregate_musig_pubkey(keys_info_in_musig),
          root_key_origin |->
              << hash160_4(aggregate_musig_pubkey(keys_info_in_musig).pubkey), << >> >>]

get_placeholder_root_key(placeholder, keys_info) ==
    IF index_error(placeholder, keys_info) THEN [raised |-> "IndexError"]
    ELSE IF placeholder.kind = "plain"
    THEN plain_root_key(keys_info[placeholder.key_indexes[1] + 1],
                        find(keys_info[placeholder.key_indexes[1] + 1], << "]" >>, 0))
    ELSE musig_root_key(keys_info_of(placeholder, keys_info))

\* [num1 if not is_change else num2, address_index]
der_subpath(placeholder, is_change, address_index) ==
    << IF ~ is_change THEN placeholder.num1 ELSE placeholder.num2, address_index >>

\* key.derive_pub_path(path).pubkey: the child key of key along path
derive_pub_path(key, path) == << "child", key.chaincode, key.pubkey, path >>

\* a mapping as the set of its <<key, value>> entries; m[k] = v
map_put(m, k, v) == { e \in m : e[1] # k } \cup { << k, v >> }

map_keys(m) == { e[1] : e \in m }

\* a signable item none of whose fields is set
EmptyInout ==
    [tap_internal_key |-> None, tap_merkle_root |-> None, tap_bip32_paths |-> {},
     musig2_participant_pubkeys |-> {}]

\* desc_tmpl.placeholders(): the keypath placeholder, with no leaf, and the
\* placeholder of every leaf, with the leaf's script descriptor
placeholders(desc_tmpl) ==
    << << desc_tmpl.key, None >> >>
        \o (IF desc_tmpl.tree = None THEN << >>
            ELSE [k \in 1 .. Len(desc_tmpl.tree) |->
                     << desc_tmpl.tree[k].placeholder, desc_tmpl.tree[k].script >>])

\* desc_tmpl.get_taptree_hash: it derives every leaf's script, so it raises
\* when a leaf names a key the policy does not have
taptree_raises(desc_tmpl, keys_info) ==
    \E k \in 1 .. Len(desc_tmpl.tree) :
        get_placeholder_root_key(desc_tmpl.tree[k].placeholder, keys_info).raised # "none"

get_taptree_hash(desc_tmpl, keys_info, is_change, address_index) ==
    << "taptree", desc_tmpl.tree, keys_info, is_change, address_index >>

\* the participants as musig2_participant_pubkeys lists them, in policy order
participants_unsorted(pubkeys_in_musig) == pubkeys_in_musig

\* list(sorted(pubkeys))
participants(pubkeys_in_musig) == sorted(pubkeys_in_musig)

\* lines 219-225: the participants entry of a musig placeholder
fill_participants(inout, placeholder, keys_info) ==
    IF placeholder.kind = "musig"
    THEN [inout EXCEPT !.musig2_participant_pubkeys =
             map_put(@, aggregate_musig_pubkey(keys_info_of(placeholder, keys_info)).pubkey,
                     participants(deserialize_pubkeys(keys_info_of(placeholder, keys_info))))]
    ELSE inout

\* tapleaf_hash of the compiled script of a leaf
leaf_hashes_of(tapleaf_desc, is_change, address_index) ==
    IF tapleaf_desc = None THEN << >>
    ELSE << << "tapleaf", tapleaf_desc, is_change, address_index >> >>

\* lines 240-253: the tap_bip32_paths entry of a placeholder whose root key rk
\* has an origin
fill_bip32_path(inout, rk, subpath, leaf_hashes) ==
    IF rk.root_key_origin # None
    THEN [inout EXCEPT !.tap_bip32_paths =
             map_put(@, derive_pub_path(rk.root_pubkey, subpath),
                     << leaf_hashes,
                        << rk.root_key_origin[1], rk.root_key_origin[2] \o subpath >> >>)]
    ELSE inout

\* the for loop over phs, the placeholders left: the item and what was raised
RECURSIVE fill_placeholders(_, _, _, _, _)
fill_placeholder(inout, phs, rk, keys_info, is_change, address_index) ==
    IF rk.raised # "none" THEN [status |-> rk.raised, inout |-> inout]
    ELSE fill_placeholders(
             fill_bip32_path(fill_participants(inout, phs[1][1], keys_info), rk,
                             der_subpath(phs[1][1], is_change, address_index),
                             leaf_hashes_of(phs[1][2], is_change, address_index)),
             Tail(phs), keys_info, is_change, address_index)

fill_placeholders(inout, phs, keys_info, is_change, address_index) ==
    IF Len(phs) = 0 THEN [status |-> "ok", inout |-> inout]
    ELSE fill_placeholder(inout, phs, get_placeholder_root_key(phs[1][1], keys_info),
                          keys_info, is_change, address_index)

\* lines 211-253, on the item with its internal key set
fill_tree(desc_tmpl, keys_info, inout, is_change, address_index) ==
    IF desc_tmpl.tree = None
    THEN fill_placeholders(inout, placeholders(desc_tmpl), keys_info, is_change,
                           address_index)
    ELSE IF taptree_raises(desc_tmpl, keys_info)
    THEN [status |-> "IndexError", inout |-> inout]
    ELSE fill_placeholders(
             [inout EXCEPT !.tap_merkle_root =
                 get_taptree_hash(desc_tmpl, keys_info, is_change, address_index)],
             placeholders(desc_tmpl), keys_info, is_change, address_index)

\* lines 205-209, keypath the root key of the keypath placeholder
fill_keypath(desc_tmpl, keys_info, inout, is_change, address_index, keypath) ==
    IF keypath.raised # "none" THEN [status |-> keypath.raised, inout |-> inout]
    ELSE fill_tree(desc_tmpl, keys_info,
                   [inout EXCEPT !.tap_internal_key =
                       derive_pub_path(keypath.root_pubkey,
                                       der_subpath(desc_tmpl.key, is_change, address_index))],
                   is_change, address_index)

fill_inout(desc_tmpl, wallet_policy, inout, is_change, address_index) ==
    fill_keypath(desc_tmpl, wallet_policy.keys_info, inout, is_change, address_index,
                 get_placeholder_root_key(desc_tmpl.key, wallet_policy.keys_info))

\* ------------------------------------------------------------------------
\* The wallet policies the descriptor functions are called with
\* ------------------------------------------------------------------------

\* the most keys of a policy: more than 10, so that @1 is a prefix of @10
MaxKeys == 12

\* what the origin of a key-info string holds
Origin == << "f" >>

\* the key-info string of key i: [origin]xpub, bare xpub, either with /**
policy_key_info(i, origin, wild) ==
    (IF origin THEN << "[" >> \o Origin \o << "]" >> ELSE << >>)
        \o b58encode_check(PLAIN_CHAINCODE, individual_pk(i + 1))
        \o (IF wild THEN Wildcard ELSE << >>)

\* the key expression of index i of a template
key_expr(i, wild) == Token(i) \o (IF wild THEN Wildcard ELSE << >>)

\* @a,@b,... for the indices of idxs
RECURSIVE join_tokens(_)
join_tokens(idxs) ==
    IF Len(idxs) = 1 THEN Token(idxs[1])
    ELSE Token(idxs[1]) \o << "," >> \o join_tokens(Tail(idxs))

musig_expr(idxs, wild) ==
    MusigOpen \o join_tokens(idxs) \o << ")" >> \o (IF wild THEN Wildcard ELSE << >>)

\* ,pk(@a/**),pk(@b/**),... for the indices of idxs
RECURSIVE leaves_expr(_, _)
leaves_expr(idxs, wild) ==
    IF Len(idxs) = 0 THEN << >>
    ELSE << ",", "p", "k", "(" >> \o key_expr(idxs[1], wild) \o << ")" >>
             \o leaves_expr(Tail(idxs), wild)

\* the first k elements of s, and the rest
take(s, k) == SubSeq(s, 1, IF k < Len(s) THEN k ELSE Len(s))

drop(s, k) == SubSeq(s, k + 1, Len(s))

\* tr(musig(@a,@b)/**,pk(@c/**),...), tr(@a/**,pk(musig(@b,@c)/**),pk(@d/**),...)
\* and tr(@a/**,pk(@b/**),...)
policy_template(shape, idxs, wild) ==
    IF shape = "tree" /\ Len(idxs) >= 2
    THEN << "t", "r", "(" >> \o key_expr(idxs[1], wild) \o << ",", "p", "k", "(" >>
             \o musig_expr(take(Tail(idxs), 2), wild) \o << ")" >>
             \o leaves_expr(drop(Tail(idxs), 2), wild) \o << ")" >>
    ELSE IF shape = "plain"
    THEN << "t", "r", "(" >> \o key_expr(idxs[1], wild)
             \o leaves_expr(Tail(idxs), wild) \o << ")" >>
    ELSE << "t", "r", "(" >> \o musig_expr(take(idxs, 2), wild)
             \o leaves_expr(drop(idxs, 2), wild) \o << ")" >>

\* the indices a template names: all of the policy's in either order, all
\* but the last, or all and one the policy does not have
policy_indices(nk, order, defect) ==
    LET all == IF order = "ascending" THEN [k \in 1 .. nk |-> k - 1]
               ELSE [k \in 1 .. nk |-> nk - k]
    IN  CASE defect = "none" -> all
          [] defect = "unused" -> IF nk = 1 THEN all ELSE SelectSeq(all, LAMBDA i : i # nk - 1)
          [] defect = "absent" -> all \o << nk >>
          [] defect = "absent10" -> all \o << nk + 10 >>

Policy(nk, order, shape, defect, version, wild, kwild, origin) ==
    [descriptor_template |-> policy_template(shape, policy_indices(nk, order, defect), wild),
     keys_info |-> [k \in 1 .. nk |-> policy_key_info(k - 1, origin, kwild)],
     version |-> version]

\* where the wildcards are: in the template (V2), in the key infos (V1), nowhere
WildcardPlaces == { << TRUE, FALSE >>, << FALSE, TRUE >>, << FALSE, FALSE >> }

Policies ==
    { Policy(nk, order, shape, defect, version, w[1], w[2], origin) :
        nk \in 1 .. MaxKeys, order \in { "ascending", "descending" },
        shape \in { "musig", "tree", "plain" },
        defect \in { "none", "unused", "absent", "absent10" },
        version \in { "V1", "V2" }, w \in WildcardPlaces, origin \in BOOLEAN }

\* the sequences of the compressed pubkeys of up to MaxSigners distinct keys
PubkeySeqs ==
    UNION { { [i \in 1 .. k |-> individual_pk(ks[i])] : ks \in KeySeqs(k) } :
              k \in 1 .. MaxSigners }

\* the keys of the policies fill_inout is called with
FillKeys == 3

\* the placeholders of those policies: every plain and every two-key musig
\* placeholder, the index FillKeys being one the policy does not have
plain_placeholder(i) == [kind |-> "plain", key_indexes |-> << i >>, num1 |-> 0, num2 |-> 1]

musig_placeholder(idxs) == [kind |-> "musig", key_indexes |-> idxs, num1 |-> 0, num2 |-> 1]

FillPlaceholders ==
    { plain_placeholder(i) : i \in 0 .. FillKeys }
        \cup { musig_placeholder(ij) :
                 ij \in { q \in (0 .. FillKeys - 1) \X (0 .. FillKeys - 1) : q[1] # q[2] } }
        \cup { musig_placeholder(<< 0, FillKeys >>) }

\* leaf k of a tree, pk(...) of placeholder ph
leaf(k, ph) == [script |-> << "pk", k >>, placeholder |-> ph]

\* no tree, one leaf, or two leaves
FillTrees ==
    { None }
        \cup { << leaf(1, ph) >> : ph \in FillPlaceholders }
        \cup { << leaf(1, ph), leaf(2, ph2) >> :
                 ph \in FillPlaceholders,
                 ph2 \in { plain_placeholder(FillKeys - 1), musig_placeholder(<< 1, 0 >>) } }

FillTemplates == { [key |-> k, tree |-> t] : k \in FillPlaceholders, t \in FillTrees }

\* the policies of FillKeys keys: bare is the set of the keys with no origin
FillPolicy(bare) ==
    [descriptor_template |-> << >>,
     keys_info |-> [k \in 1 .. FillKeys |-> policy_key_info(k - 1, (k - 1) \notin bare, FALSE)],
     version |-> "V2"]

\* the calls of the descriptor functions
Calls ==
    { [fn |-> "getScriptPubkeyFromWallet", wallet |-> w, change |-> c] :
        w \in Policies, c \in BOOLEAN }
    \cup { [fn |-> "musig_aggr_xpub", pubkeys |-> pks] : pks \in PubkeySeqs }
    \cup { [fn |-> "fill_inout", desc_tmpl |-> t, wallet_policy |-> FillPolicy(bare),
            is_change |-> c, address_index |-> 5] :
            t \in FillTemplates, bare \in { {}, { 0 }, 0 .. FillKeys - 1 }, c \in BOOLEAN }

\* ------------------------------------------------------------------------
\* The descriptor functions, each called once with one of the calls
\* ------------------------------------------------------------------------

CallGetScriptPubkeyFromWallet ==
    /\ call.fn = "getScriptPubkeyFromWallet"
    /\ ret = NoRet
    /\ ret' = getScriptPubkeyFromWallet(call.wallet, call.change)
    /\ UNCHANGED << svars, call >>

CallMusigAggrXpub ==
    /\ call.fn = "musig_aggr_xpub"
    /\ ret = NoRet
    /\ ret' = [status |-> IF musig_aggr_xpub(call.pubkeys) = Raised THEN "ValueError"
                          ELSE "xpub",
               xpub |-> musig_aggr_xpub(call.pubkeys)]
    /\ UNCHANGED << svars, call >>

CallFillInout ==
    /\ call.fn = "fill_inout"
    /\ ret = NoRet
    /\ ret' = fill_inout(call.desc_tmpl, call.wallet_policy, EmptyInout, call.is_change,
                         call.address_index)
    /\ UNCHANGED << svars, call >>

\* no signing session runs
NoSession ==
    /\ keys = << >>
    /\ msgs = << >>
    /\ pc = "descriptor"
    /\ idx = 1
    /\ secnonce = << >>
    /\ pub_nonces = << >>
    /\ partial_sigs = << >>
    /\ tap_key_sig = << >>
    /\ result = << >>
    /\ complete = FALSE
    /\ err = "none"
    /\ last = << "none", 0 >>
    /\ r1done = {}
    /\ r2begun = {}
    /\ r2done = {}
    /\ aggbegun = FALSE
    /\ tampered = {}
    /\ calls = 0

InitDesc == NoSession /\ call \in Calls /\ ret = NoRet

NextDesc == CallGetScriptPubkeyFromWallet \/ CallMusigAggrXpub \/ CallFillInout

SpecDesc == InitDesc /\ [][NextDesc]_vars

\* ------------------------------------------------------------------------
\* Claims
\* ------------------------------------------------------------------------

\* the aggregate point of the session's policy
AggQ == key_agg(sorted_pubkeys).Q

\* the aggregate nonce of item j is a point of the curve.  The 31-element
\* group reaches the point at infinity in an honest session; secp256k1 does
\* so with negligible probability.
NonDegenerate(j) == final_nonce(pub_nonces[j], AggQ, msgs[j]) # None

\* C1: a session of N >= 2 cosigners with keys in [1, n-1], supplied in any
\* order, that ran key aggregation, round 1, round 2, partial verification
\* and aggregation ends with a final signature that verifies as a Schnorr
\* signature against the aggregate key and the message.
C1_MusigSignatureVerifies ==
    pc = "done" =>
        \A j \in Items :
            NonDegenerate(j) =>
                /\ result[j] = "ok"
                /\ tap_key_sig[j] # Missing
                /\ schnorr_verify(msgs[j], bytes_from_point(AggQ), tap_key_sig[j])

C1_Witness ==
    /\ pc = "done"
    /\ N >= 3
    /\ pubkeys # sorted_pubkeys
    /\ ~ has_even_y(AggQ)
    /\ NonDegenerate(1)
    /\ tap_key_sig[1] # Missing

\* C2: no round-2 call begins before the round-1 call of every cosigner has
\* completed, and the aggregation begins only after the round-2 call of every
\* cosigner has completed.
C2_RoundBarrier ==
    /\ r2begun # {} => r1done = Cosigners
    /\ aggbegun => r2done = Cosigners

C2_Witness == aggbegun /\ r2begun = Cosigners /\ r1done = Cosigners

\* C3: a round-2 call made while a public nonce of some item is missing ends
\* with ProtocolOrderingError and writes no partial signature for that item.
C3_Round2NeedsAllNonces ==
    (last[1] = "round2" /\ \E j \in Items : ~ AllNoncesPresent(j)) =>
        /\ err = "ProtocolOrderingError"
        /\ \A j \in Items :
              ~ AllNoncesPresent(j) => partial_sigs[j][last[2]] = Missing

C3_Witness ==
    /\ last[1] = "round2"
    /\ \E j \in Items : ~ AllNoncesPresent(j) /\ pub_nonces[j][last[2]] # Missing
    /\ err = "ProtocolOrderingError"

\* C4: an item gets a final signature only if every partial signature of it
\* verifies; when one bit of one partial signature was flipped before the
\* aggregation, the item ends with CryptoVerificationFailure and without a
\* final signature.
C4_TamperedPartialRejected ==
    pc = "done" =>
        /\ \A j \in Items : tap_key_sig[j] # Missing => FailingSigners(j) = {}
        /\ \A t \in tampered :
              /\ result[t[1]] = "CryptoVerificationFailure"
              /\ tap_key_sig[t[1]] = Missing

\* a tampered partial signature that is still a scalar below n
C4_Witness ==
    /\ pc = "done"
    /\ \E t \in tampered :
          /\ int_from_bytes(partial_sigs[t[1]][t[2]]) < n
          /\ result[t[1]] = "CryptoVerificationFailure"

\* C10: the items' results are independent: an item whose aggregation fails
\* is reported failed, every other item whose partial signatures aggregate
\* and verify gets its final signature, and full completion is declared
\* exactly when every item aggregated and verified.
C10_PerItemResults ==
    pc = "done" =>
        /\ \A j \in Items :
              (NonDegenerate(j) /\ \A t \in tampered : t[1] # j) =>
                  /\ result[j] = "ok"
                  /\ schnorr_verify(msgs[j], bytes_from_point(AggQ), tap_key_sig[j])
        /\ \A j \in Items : result[j] # "ok" => tap_key_sig[j] = Missing
        /\ complete <=> \A j \in Items : result[j] = "ok"

C10_Witness ==
    /\ pc = "done"
    /\ ~ complete
    /\ \E j, k \in Items :
          /\ result[j] = "CryptoVerificationFailure"
          /\ result[k] = "ok"
          /\ tap_key_sig[k] # Missing

\* the number of digits of s from index i (counted from 0) on
digit_run(s, i) ==
    (CHOOSE j \in i .. Len(s) :
        /\ \A k \in i + 1 .. j : IsDigit(s[k])
        /\ (j < Len(s)) => ~ IsDigit(s[j + 1])) - i

\* the number a string of digits writes
RECURSIVE int_of_digits(_)
int_of_digits(ds) ==
    IF Len(ds) = 0 THEN 0
    ELSE 10 * int_of_digits(SubSeq(ds, 1, Len(ds) - 1)) + DigitValue(ds[Len(ds)])

\* the indices of the tokens of a template, a token being @ and all the
\* digits that follow it
RECURSIVE token_indices(_)
token_indices_at(s, at) ==
    IF at = -1 THEN {}
    ELSE { int_of_digits(slice(s, at + 1, at + 1 + digit_run(s, at + 1))) }
             \cup token_indices(slice(s, at + 1 + digit_run(s, at + 1), Len(s)))

token_indices(s) == token_indices_at(s, find(s, << "@" >>, 0))

\* the template with every token @i replaced by keys_info[i]
RECURSIVE render(_, _)
render_at(s, keys_info, at) ==
    IF at = -1 THEN s
    ELSE slice(s, 0, at)
             \o keys_info[int_of_digits(slice(s, at + 1, at + 1 + digit_run(s, at + 1))) + 1]
             \o render(slice(s, at + 1 + digit_run(s, at + 1), Len(s)), keys_info)

render(s, keys_info) == render_at(s, keys_info, find(s, << "@" >>, 0))

\* every token of the template names a key of the policy
WellReferenced(wallet) ==
    \A i \in token_indices(wallet.descriptor_template) : i < Len(wallet.keys_info)

\* the loop of getScriptPubkeyFromWallet raises: a V1 key info has no /**,
\* or a key of the policy is named by no token
LoopRaises(wallet) ==
    \/ /\ wallet.version = "V1"
       /\ \E k \in 1 .. Len(wallet.keys_info) : ~ ends_with_wildcard(wallet.keys_info[k])
    \/ \E i \in 0 .. Len(wallet.keys_info) - 1 :
           i \notin token_indices(wallet.descriptor_template)

GetScriptReturned == call.fn = "getScriptPubkeyFromWallet" /\ ret # NoRet

\* C6: when every token of the template names a key of the policy, the
\* substitution loop of getScriptPubkeyFromWallet either raises (a key is
\* unused, or a V1 key info lacks the wildcard) or leaves the template with
\* every token @i replaced by exactly keys_info[i]; no short token is
\* substituted inside a longer one, for policies of more than 10 keys too.
C6_DescendingSubstitution ==
    (GetScriptReturned /\ WellReferenced(call.wallet)) =>
        IF LoopRaises(call.wallet) THEN ret.substituted = Raised
        ELSE ret.substituted = render(call.wallet.descriptor_template, call.wallet.keys_info)

\* a policy of more than 10 keys whose template names @1 before @10 was expanded
C6_Witness ==
    /\ GetScriptReturned
    /\ Len(call.wallet.keys_info) > 10
    /\ WellReferenced(call.wallet)
    /\ ret.status = "script"
    /\ find(call.wallet.descriptor_template, Token(1) \o << "/" >>, 0) # -1
    /\ find(call.wallet.descriptor_template, Token(1) \o << "/" >>, 0)
           < find(call.wallet.descriptor_template, Token(10), 0)
    /\ ret.substituted = render(call.wallet.descriptor_template, call.wallet.keys_info)

\* a V2 template one of whose tokens is not followed by /**
WildcardMissing(wallet) ==
    IF wallet.version = "V1"
    THEN \E k \in 1 .. Len(wallet.keys_info) : ~ ends_with_wildcard(wallet.keys_info[k])
    ELSE ~ contains(wallet.descriptor_template, Wildcard)

\* a placeholder of the template names a key the policy does not have
AbsentIndex(desc_tmpl, keys_info) ==
    \E k \in 1 .. Len(placeholders(desc_tmpl)) :
        index_error(placeholders(desc_tmpl)[k][1], keys_info)

\* C7: a policy whose template names an absent key index, or lacks a
\* required /** wildcard, always fails: getScriptPubkeyFromWallet returns no
\* script for it and fill_inout fills no field of the item.
C7_MalformedPolicyFails ==
    /\ (GetScriptReturned /\ (~ WellReferenced(call.wallet) \/ WildcardMissing(call.wallet)))
           => ret.status # "script"
    /\ (call.fn = "fill_inout" /\ ret # NoRet
            /\ AbsentIndex(call.desc_tmpl, call.wallet_policy.keys_info))
           => (ret.status # "ok" /\ ret.inout = EmptyInout)

FillInoutDone == call.fn = "fill_inout" /\ ret # NoRet /\ ret.status = "ok"

\* the root key of a placeholder has an origin: every musig placeholder, and
\* a plain one whose key info is [origin]xpub
HasOrigin(ph, keys_info) ==
    ph.kind = "musig" \/ contains(keys_info[ph.key_indexes[1] + 1], << "]" >>)

\* the derived pubkey of a placeholder of the call
DerivedKey(ph) ==
    derive_pub_path(get_placeholder_root_key(ph, call.wallet_policy.keys_info).root_pubkey,
                    der_subpath(ph, call.is_change, call.address_index))

\* a list of byte strings is in ascending order
IsSorted(l) == \A a, b \in 1 .. Len(l) : (a < b) => ~ bytes_lt(l[b], l[a])

\* pks holds what qs holds
SameKeys(pks, qs) ==
    /\ Len(pks) = Len(qs)
    /\ \A e \in { pks[k] : k \in 1 .. Len(pks) } \cup { qs[k] : k \in 1 .. Len(qs) } :
           Cardinality({ k \in 1 .. Len(pks) : pks[k] = e })
               = Cardinality({ k \in 1 .. Len(qs) : qs[k] = e })

\* the pubkeys of the keys of a placeholder of the call
PlaceholderPubkeys(ph) == deserialize_pubkeys(keys_info_of(ph, call.wallet_policy.keys_info))

\* the participants entry of a musig placeholder: the aggregate key mapped to
\* the sorted pubkeys of the placeholder's keys
ParticipantsEntry(ph, inout) ==
    \E e \in inout.musig2_participant_pubkeys :
        /\ e[1] = get_placeholder_root_key(ph, call.wallet_policy.keys_info).root_pubkey.pubkey
        /\ IsSorted(e[2])
        /\ SameKeys(e[2], PlaceholderPubkeys(ph))

\* no musig placeholder of other participants has the aggregate key of ph: on
\* the 31 points of the model's group two aggregates can coincide
AggregateIsItsOwn(ph) ==
    \A k \in 1 .. Len(placeholders(call.desc_tmpl)) :
        (/\ placeholders(call.desc_tmpl)[k][1].kind = "musig"
         /\ key_agg(sorted(PlaceholderPubkeys(placeholders(call.desc_tmpl)[k][1]))).Q
                = key_agg(sorted(PlaceholderPubkeys(ph))).Q)
            => SameKeys(PlaceholderPubkeys(placeholders(call.desc_tmpl)[k][1]),
                        PlaceholderPubkeys(ph))

FillInoutCommon ==
    /\ ret.inout.tap_internal_key = DerivedKey(call.desc_tmpl.key)
    /\ (ret.inout.tap_merkle_root # None) <=> (call.desc_tmpl.tree # None)
    /\ \A k \in 1 .. Len(placeholders(call.desc_tmpl)) :
           (/\ placeholders(call.desc_tmpl)[k][1].kind = "musig"
            /\ AggregateIsItsOwn(placeholders(call.desc_tmpl)[k][1]))
               => ParticipantsEntry(placeholders(call.desc_tmpl)[k][1], ret.inout)

\* C8 as stated: after fill_inout the item has its internal key, its merkle
\* root exactly when the template has a tree, a tap_bip32_paths entry for
\* every placeholder, and a sorted participants entry for every musig one.
C8_EveryPlaceholderHasEntry ==
    FillInoutDone =>
        /\ FillInoutCommon
        /\ \A k \in 1 .. Len(placeholders(call.desc_tmpl)) :
               DerivedKey(placeholders(call.desc_tmpl)[k][1])
                   \in map_keys(ret.inout.tap_bip32_paths)

\* C8, amended: after fill_inout the item has its internal key, its merkle
\* root exactly when the template has a tree, a sorted participants entry
\* for every musig placeholder, and a tap_bip32_paths entry for exactly the
\* placeholders whose root key has an origin: a plain placeholder whose key
\* info is a bare xpub gets none.
C8_OriginPlaceholdersHaveEntry ==
    FillInoutDone =>
        /\ FillInoutCommon
        /\ \A k \in 1 .. Len(placeholders(call.desc_tmpl)) :
               HasOrigin(placeholders(call.desc_tmpl)[k][1], call.wallet_policy.keys_info)
                   <=> (DerivedKey(placeholders(call.desc_tmpl)[k][1])
                            \in map_keys(ret.inout.tap_bip32_paths))

\* fill_inout filled an item for a template with a tree, a plain placeholder
\* of a bare xpub and a musig placeholder whose keys are not in sorted order
C8_Witness ==
    /\ FillInoutDone
    /\ call.desc_tmpl.tree # None
    /\ \E k \in 1 .. Len(placeholders(call.desc_tmpl)) :
           ~ HasOrigin(placeholders(call.desc_tmpl)[k][1], call.wallet_policy.keys_info)
    /\ \E k \in 1 .. Len(placeholders(call.desc_tmpl)) :
           /\ placeholders(call.desc_tmpl)[k][1].kind = "musig"
           /\ ~ IsSorted(deserialize_pubkeys(
                    keys_info_of(placeholders(call.desc_tmpl)[k][1],
                                 call.wallet_policy.keys_info)))
    /\ ret.inout.tap_bip32_paths # {}

\* the orderings of the elements of a sequence
Orderings(s) ==
    { [i \in 1 .. Len(s) |-> s[f[i]]] :
        f \in { g \in [1 .. Len(s) -> 1 .. Len(s)] :
                  \A a, b \in 1 .. Len(s) : (a # b) => (g[a] # g[b]) } }

\* C9: musig_aggr_xpub returns the same synthetic extended key for every
\* permutation of the list of participant pubkeys it was called with.
C9_AggrXpubOrderIndependent ==
    (call.fn = "musig_aggr_xpub" /\ ret # NoRet) =>
        \A q \in Orderings(call.pubkeys) : musig_aggr_xpub(q) = ret.xpub

\* an aggregate key was returned for three pubkeys given in unsorted order
C9_Witness ==
    /\ call.fn = "musig_aggr_xpub"
    /\ ret # NoRet
    /\ ret.status = "xpub"
    /\ Len(call.pubkeys) >= 3
    /\ ~ IsSorted(call.pubkeys)

\* the public nonces of item j as the cosigners' secret nonces give them
NoncesOf(j) == [i \in Cosigners |-> nonce_pub(secnonce[i][j])]

\* the partial signatures of item j as the secret nonces and keys give them
SigsOf(j) ==
    [i \in Cosigners |->
        bytes_from_int(sign(secnonce[i][j], keys[i], NoncesOf(j), sorted_pubkeys, msgs[j]))]

\* a call of cosigner i in a round changes no entry but those of cosigner i
OwnEntriesOnly ==
    \A j \in Items, i \in Cosigners :
        /\ (pub_nonces'[j][i] # pub_nonces[j][i]) => (last' = << "round1", i >>)
        /\ (partial_sigs'[j][i] # partial_sigs[j][i]) => (last' = << "round2", i >>)

\* an entry of the container, once written, stays as it was written
NoEntryLost ==
    \A j \in Items, i \in Cosigners :
        /\ (pub_nonces[j][i] # Missing) => (pub_nonces'[j][i] = pub_nonces[j][i])
        /\ (partial_sigs[j][i] # Missing) => (partial_sigs'[j][i] = partial_sigs[j][i])

\* whatever the order of the calls was, the container after round 1, after
\* round 2 and after the aggregation is what the keys, the messages and the
\* nonces drawn determine
SameOutcome ==
    /\ (pc \in { "round2", "agg", "done" }) =>
           \A j \in Items : pub_nonces[j] = NoncesOf(j)
    /\ (pc \in { "agg", "done" }) =>
           \A j \in Items : partial_sigs[j] = SigsOf(j)
    /\ (pc = "done") =>
           \A j \in Items :
               /\ (result[j] = "ok") =>
                      tap_key_sig[j] = partial_sig_agg(SigsOf(j), NoncesOf(j),
                                                       sorted_pubkeys, msgs[j])
               /\ NonDegenerate(j) => (result[j] = "ok")
    /\ pc # "aborted"

\* C11: with the rounds separated by a barrier and the cosigners of a round
\* called in any order, a call writes only its own cosigner's entries, no
\* entry is overwritten or lost, and the session ends in the outcome that the
\* keys, the messages and the nonces determine, whatever the order was.
C11_CallsOfARoundIndependent ==
    /\ [][OwnEntriesOnly /\ NoEntryLost]_vars
    /\ []SameOutcome

\* round 2 of a session of three cosigners is over, the first cosigner of the
\* policy having made the last call of it
C11_Witness ==
    /\ pc = "agg"
    /\ N >= 3
    /\ last = << "round2", 1 >>
    /\ r2done = Cosigners
    /\ \A j \in Items : partial_sigs[j] = SigsOf(j)

\* ------------------------------------------------------------------------
\* utils/taproot.py: pubkey_gen, xor_bytes, schnorr_sign
\* ------------------------------------------------------------------------

\* what schnorr_sign raises when the nonce k0 is zero
NonceFailure == << "RuntimeError", "Failure" >>

\* what schnorr_sign raises when its signature does not verify
VerificationFailure == << "RuntimeError", "verification" >>

\* x ^ y of two base-8 digits, bit by bit
xor_digit(a, b) ==
    ((a + b) % 2) + 2 * (((a \div 2) + (b \div 2)) % 2) + 4 * (((a \div 4) + (b \div 4)) % 2)

\* bytes(x ^ y for (x, y) in zip(b0, b1))
xor_bytes(b0, b1) ==
    [k \in 1 .. (IF Len(b0) < Len(b1) THEN Len(b0) ELSE Len(b1)) |-> xor_digit(b0[k], b1[k])]

pubkey_gen(seckey) ==
    IF ~ (1 <= int_from_bytes(seckey) /\ int_from_bytes(seckey) <= n - 1) THEN Raised
    ELSE bytes_from_point(point_mul(G, int_from_bytes(seckey)))

\* lines 125-127 of schnorr_sign: the signature is verified before it is returned
schnorr_sign_check(msg, P, sig) ==
    IF ~ schnorr_verify(msg, bytes_from_point(P), sig) THEN VerificationFailure ELSE sig

\* line 122: the challenge e
schnorr_sign_e(msg, P, R) ==
    int_from_bytes(tagged_hash("BIP0340/challenge",
                               bytes_from_point(R) \o bytes_from_point(P) \o msg)) % n

\* lines 121-123: k = n - k0 when R has odd Y; sig = bytes(R) || bytes((k + e*d) % n)
schnorr_sign_R(msg, P, d, R, k0) ==
    schnorr_sign_check(msg, P,
        bytes_from_point(R)
            \o bytes_from_int(((IF ~ has_even_y(R) THEN n - k0 ELSE k0)
                               + schnorr_sign_e(msg, P, R) * d) % n))

\* lines 117-119
schnorr_sign_k0(msg, P, d, k0) ==
    IF k0 = 0 THEN NonceFailure ELSE schnorr_sign_R(msg, P, d, point_mul(G, k0), k0)

\* lines 115-116: t = d xor hash(aux); k0 = hash(t || P || msg) mod n
schnorr_sign_d(msg, P, d, aux_rand) ==
    schnorr_sign_k0(msg, P, d,
        int_from_bytes(tagged_hash("BIP0340/nonce",
            xor_bytes(bytes_from_int(d), tagged_hash("BIP0340/aux", aux_rand))
                \o bytes_from_point(P) \o msg)) % n)

\* schnorr_sign with d = d0 whatever the parity of P
schnorr_sign_P_unnegated(msg, d0, aux_rand, P) == schnorr_sign_d(msg, P, d0, aux_rand)

\* line 114: d = d0 if has_even_y(P) else n - d0
schnorr_sign_P(msg, d0, aux_rand, P) ==
    schnorr_sign_d(msg, P, IF has_even_y(P) THEN d0 ELSE n - d0, aux_rand)

\* schnorr_sign(msg, seckey, aux_rand); 32 bytes are two digits
schnorr_sign(msg, seckey, aux_rand) ==
    IF ~ (1 <= int_from_bytes(seckey) /\ int_from_bytes(seckey) <= n - 1) THEN Raised
    ELSE IF Len(aux_rand) # 2 THEN Raised
    ELSE schnorr_sign_P(msg, int_from_bytes(seckey), aux_rand,
                        point_mul(G, int_from_bytes(seckey)))

\* ------------------------------------------------------------------------
\* utils/taproot.py: taproot_tweak_pubkey, taproot_tweak_seckey
\* ------------------------------------------------------------------------

\* the failed assert of has_even_y on the point at infinity
AssertionRaised == << "AssertionError" >>

\* line 214: (0 if has_even_y(Q) else 1, bytes_from_int(x(Q)))
taproot_tweak_pubkey_Q(Q) ==
    IF is_infinite(Q) THEN AssertionRaised
    ELSE << IF has_even_y(Q) THEN 0 ELSE 1, bytes_from_int(x(Q)) >>

\* lines 211-213
taproot_tweak_pubkey_P(P, t) ==
    IF P = None THEN Raised ELSE taproot_tweak_pubkey_Q(point_add(P, point_mul(G, t)))

\* lines 208-210
taproot_tweak_pubkey_t(pubkey, t) ==
    IF t >= SECP256K1_ORDER THEN Raised
    ELSE taproot_tweak_pubkey_P(lift_x(int_from_bytes(pubkey)), t)

taproot_tweak_pubkey(pubkey, h) ==
    taproot_tweak_pubkey_t(pubkey, int_from_bytes(tagged_hash("TapTweak", pubkey \o h)))

\* lines 221-223
taproot_tweak_seckey_t(seckey, t) ==
    IF t >= SECP256K1_ORDER THEN Raised
    ELSE bytes_from_int((seckey + t) % SECP256K1_ORDER)

\* taproot_tweak_seckey with seckey = seckey0 whatever the parity of P
taproot_tweak_seckey_P_unnegated(seckey0, h, P) ==
    taproot_tweak_seckey_t(seckey0,
        int_from_bytes(tagged_hash("TapTweak", bytes_from_int(x(P)) \o h)))

\* lines 219-220: seckey = seckey0 if has_even_y(P) else SECP256K1_ORDER - seckey0
taproot_tweak_seckey_P(seckey0, h, P) ==
    taproot_tweak_seckey_t(IF has_even_y(P) THEN seckey0 ELSE SECP256K1_ORDER - seckey0,
        int_from_bytes(tagged_hash("TapTweak", bytes_from_int(x(P)) \o h)))

\* taproot_tweak_seckey(seckey0, h); has_even_y asserts that P is not infinity
taproot_tweak_seckey(seckey0, h) ==
    IF is_infinite(point_mul(G, int_from_bytes(seckey0))) THEN AssertionRaised
    ELSE taproot_tweak_seckey_P(int_from_bytes(seckey0), h,
                                point_mul(G, int_from_bytes(seckey0)))

\* ------------------------------------------------------------------------
\* The BIP-340/341 functions, each called once with one of the calls
\* ------------------------------------------------------------------------

\* the 32-byte strings: every two-digit string
Bytes32 == { << a, b >> : a \in 0 .. 7, b \in 0 .. 7 }

\* the auxiliary random data of schnorr_sign
AuxPool == { << 0, 0 >>, << 5, 3 >>, << 7, 7 >> }

\* the tweak data: the empty root of a key-path-only output, and merkle roots
TweakData == { << >>, << 0, 0 >>, << 1, 2 >>, << 3, 3 >>, << 6, 5 >> }

TaprootCalls ==
    { [fn |-> "schnorr_sign", msg |-> m, seckey |-> d, aux_rand |-> a] :
        m \in MsgPool, d \in Bytes32, a \in AuxPool }
    \cup { [fn |-> "taproot_tweak", seckey |-> d, h |-> h] : d \in Bytes32, h \in TweakData }

\* what a call returned or raised
status_of(r) ==
    IF r = Raised THEN "ValueError"
    ELSE IF r = AssertionRaised THEN "AssertionError"
    ELSE IF r = NonceFailure \/ r = VerificationFailure THEN "RuntimeError"
    ELSE "returned"

\* sig = schnorr_sign(msg, seckey, aux_rand)
CallSchnorrSign ==
    /\ call.fn = "schnorr_sign"
    /\ ret = NoRet
    /\ ret' = [status |-> status_of(schnorr_sign(call.msg, call.seckey, call.aux_rand)),
               sig |-> schnorr_sign(call.msg, call.seckey, call.aux_rand)]
    /\ UNCHANGED << svars, call >>

\* pubkey = pubkey_gen(seckey), then both tweaks of the pair:
\* taproot_tweak_pubkey(pubkey, h) and taproot_tweak_seckey(seckey, h)
CallTaprootTweak ==
    /\ call.fn = "taproot_tweak"
    /\ ret = NoRet
    /\ ret' = IF pubkey_gen(call.seckey) = Raised
              THEN [status |-> "ValueError"]
              ELSE [status |-> "returned",
                    pubkey |-> pubkey_gen(call.seckey),
                    tweaked_pubkey |-> taproot_tweak_pubkey(pubkey_gen(call.seckey), call.h),
                    tweaked_seckey |-> taproot_tweak_seckey(call.seckey, call.h)]
    /\ UNCHANGED << svars, call >>

InitTaproot == NoSession /\ call \in TaprootCalls /\ ret = NoRet

NextTaproot == CallSchnorrSign \/ CallTaprootTweak

SpecTaproot == InitTaproot /\ [][NextTaproot]_vars

\* the secret keys of the range 1 .. n - 1
ValidSeckey(d) == 1 <= int_from_bytes(d) /\ int_from_bytes(d) <= n - 1

\* the secret keys whose point has odd Y
OddY(d) == ~ has_even_y(point_mul(G, int_from_bytes(d)))

\* C12: for every secret key d of 1 .. n-1, every message and every aux,
\* schnorr_sign returns a signature that schnorr_verify accepts under
\* pubkey_gen(d); the only call that returns none is the one whose nonce k0
\* is zero, which raises the RuntimeError of line 118.
C12_SignThenVerify ==
    (call.fn = "schnorr_sign" /\ ret # NoRet /\ ValidSeckey(call.seckey)
        /\ ret.sig # NonceFailure)
    => /\ ret.status = "returned"
       /\ schnorr_verify(call.msg, pubkey_gen(call.seckey), ret.sig)

C12_Witness ==
    /\ call.fn = "schnorr_sign"
    /\ ret # NoRet
    /\ ValidSeckey(call.seckey)
    /\ OddY(call.seckey)
    /\ ret.status = "returned"
    /\ schnorr_verify(call.msg, pubkey_gen(call.seckey), ret.sig)

\* the tweak t of the public key of d and the data h
TweakOf(d, h) == int_from_bytes(tagged_hash("TapTweak", pubkey_gen(d) \o h))

\* C13: for every secret key d of 1 .. n-1 and tweak data h whose tweak is in
\* range, pubkey_gen(taproot_tweak_seckey(d, h)) is the x-only key that
\* taproot_tweak_pubkey(pubkey_gen(d), h) returns, whether the point of d has
\* even or odd Y; the tweaked point is not the point at infinity.
C13_TweakedPairAgrees ==
    (call.fn = "taproot_tweak" /\ ret # NoRet /\ ValidSeckey(call.seckey)
        /\ TweakOf(call.seckey, call.h) < SECP256K1_ORDER
        /\ ret.tweaked_pubkey # AssertionRaised)
    => /\ ret.tweaked_pubkey # Raised
       /\ ret.tweaked_seckey # Raised
       /\ ret.tweaked_seckey # AssertionRaised
       /\ pubkey_gen(ret.tweaked_seckey) = ret.tweaked_pubkey[2]

C13_Witness ==
    /\ call.fn = "taproot_tweak"
    /\ ret # NoRet
    /\ ValidSeckey(call.seckey)
    /\ OddY(call.seckey)
    /\ call.h # << >>
    /\ TweakOf(call.seckey, call.h) \in 1 .. SECP256K1_ORDER - 1
    /\ ret.tweaked_pubkey \notin { Raised, AssertionRaised }
    /\ ret.tweaked_pubkey[1] = 1
    /\ pubkey_gen(ret.tweaked_seckey) = ret.tweaked_pubkey[2]

\* ------------------------------------------------------------------------
\* utils/txmaker.py: the while loop of replace_musigs_with_aggr_xpubs, one
\* iteration a step
\* ------------------------------------------------------------------------

\* the descriptor strings have at most MaxPieces pieces
MaxPieces == 4

\* a splice that leaves "musig(" and ")" where they are
musig_loop_splice_kept(desc, musig_start, musig_end, xpub) ==
    slice(desc, 0, musig_start + 6) \o xpub \o slice(desc, musig_end, Len(desc))

\* lines 96-97: desc[:musig_start] + musig_aggr_xpub(pubkeys) + desc[musig_end+1:]
musig_loop_splice(desc, musig_start, musig_end, xpub) ==
    slice(desc, 0, musig_start) \o xpub \o slice(desc, musig_end + 1, Len(desc))

\* lines 93-97: b58decode_check and key_agg raise ValueError
musig_loop_pubkeys(desc, musig_start, musig_end, pks) ==
    IF pks = Raised THEN [status |-> "ValueError", desc |-> desc]
    ELSE IF musig_aggr_xpub(pks) = Raised THEN [status |-> "ValueError", desc |-> desc]
    ELSE [status |-> "running",
          desc |-> musig_loop_splice(desc, musig_start, musig_end, musig_aggr_xpub(pks))]

\* lines 85-88
musig_loop_end(desc, musig_start, musig_end) ==
    IF musig_end = -1 THEN [status |-> "ValueError", desc |-> desc]
    ELSE musig_loop_pubkeys(desc, musig_start, musig_end,
             musig_pubkeys(split(slice(desc, musig_start + 6, musig_end), << "," >>)))

\* lines 82-84: the break leaves the loop, and desc is returned
musig_loop_start(desc, musig_start) ==
    IF musig_start = -1 THEN [status |-> "returned", desc |-> desc]
    ELSE musig_loop_end(desc, musig_start, find(desc, << ")" >>, musig_start))

\* one iteration of the loop on desc
musig_loop_iteration(desc) == musig_loop_start(desc, find(desc, MusigOpen, 0))

\* the xpub of the key of the pool with secret key k
pool_xpub(k) == b58encode_check(PLAIN_CHAINCODE, individual_pk(k))

\* the pieces the descriptor strings are made of: whole musig groups, with and
\* without key origin, and the parts of broken ones
Pieces ==
    { MusigOpen \o pool_xpub(3) \o << "," >> \o pool_xpub(20) \o << ")" >>,
      MusigOpen \o << "[", "f", "]" >> \o pool_xpub(5) \o << ")" >>,
      MusigOpen,
      << ")" >>,
      << "," >>,
      pool_xpub(12),
      << "t", "r", "(" >> }

\* the strings of at most k pieces
RECURSIVE Descs(_)
Descs(k) ==
    IF k = 0 THEN { << >> }
    ELSE Descs(k - 1) \cup { d \o q : d \in Descs(k - 1), q \in Pieces }

MusigCalls == { [fn |-> "replace_musigs_with_aggr_xpubs", desc |-> d] : d \in Descs(MaxPieces) }

\* the call: the loop is entered with the argument
CallReplaceMusigs ==
    /\ call = NoCall
    /\ \E c \in MusigCalls :
          /\ call' = c
          /\ ret' = [status |-> "running", desc |-> c.desc]
    /\ UNCHANGED svars

ReplaceMusigsIteration ==
    /\ call # NoCall
    /\ ret.status = "running"
    /\ ret' = musig_loop_iteration(ret.desc)
    /\ UNCHANGED << svars, call >>

InitMusigLoop == NoSession /\ call = NoCall /\ ret = NoRet

NextMusigLoop == CallReplaceMusigs \/ ReplaceMusigsIteration

\* a step can be taken: the call has not been made, or the loop is running
\* (every iteration changes ret)
LoopCanStep == call = NoCall \/ ret.status = "running"

\* the interpreter runs the loop on, a step that can be taken is taken:
\* WF_vars(NextMusigLoop), with ENABLED <<NextMusigLoop>>_vars written out
LoopRunsOn == []<>(~ LoopCanStep) \/ []<><<NextMusigLoop>>_vars

SpecMusigLoop == InitMusigLoop /\ [][NextMusigLoop]_vars /\ LoopRunsOn

\* the number of places of desc where sub occurs
count(desc, sub) == Cardinality(occurrences(desc, sub, 0))

\* some musig( of desc has no closing parenthesis after it
Unclosed(desc) ==
    \E i \in occurrences(desc, MusigOpen, 0) : find(desc, << ")" >>, i) = -1

\* an iteration that goes round again has removed a musig( group: the string
\* has fewer "musig(" and fewer "(" than before
RemovesOneGroup ==
    (ret.status = "running" /\ ret'.status = "running")
    => /\ count(ret'.desc, MusigOpen) < count(ret.desc, MusigOpen)
       /\ count(ret'.desc, << "(" >>) < count(ret.desc, << "(" >>)

\* what the loop ends with
LoopOutcome ==
    /\ (ret.status = "returned")
       => /\ ~ Unclosed(call.desc)
          /\ ~ contains(ret.desc, MusigOpen)
          /\ ret.desc = replace_musigs_with_aggr_xpubs(call.desc)
    /\ (ret.status = "ValueError") => (replace_musigs_with_aggr_xpubs(call.desc) = Raised)

\* C14: replace_musigs_with_aggr_xpubs terminates on every descriptor string:
\* every iteration that does not end the loop removes one musig( group, the
\* loop ends, and it ends by returning a string without "musig(" or by
\* raising; it raises when a musig( has no closing parenthesis.
C14_ReplaceMusigsTerminates ==
    /\ <>(ret.status \in { "returned", "ValueError" })
    /\ [][RemovesOneGroup]_vars
    /\ []LoopOutcome

C14_Witness ==
    /\ call.fn = "replace_musigs_with_aggr_xpubs"
    /\ count(call.desc, MusigOpen) >= 2
    /\ ret.status = "returned"
    /\ ret.desc # call.desc
    /\ contains(ret.desc, << "X", "7" >>)

====
